---- MODULE Spec2Model ----
(***************************************************************************)
(* Model of the interactive frame-labeling loop of mark.py (main) and of   *)
(* its export stage: the pygame event handlers, the per-iteration hold /   *)
(* auto-play / display branches, gap-fill, the CSV export and the ffmpeg   *)
(* review render.                                                          *)
(***************************************************************************)
EXTENDS Integers, Sequences, FiniteSets, TLC

\* ------------------------------------------------------------------ bounds
\* Videos of 1..MaxFrames frames.
MaxFrames == 2
\* pygame.time.get_ticks() is followed up to this many milliseconds.
MaxTicks == 500
\* Label files given to the combiner hold frames within 0..MaxRow.
MaxRow == 3

\* ------------------------------------------------------- program constants
\* Python's None (held_state, held_state_start, held_state_last_advance).
None == -100
\* DEFAULT_STATES / STATE_COLORS key of the unlabeled state.
UNLABELED == -1
\* "if current_ticks - held_state_start >= 300"
HOLD_DELAY == 300
\* "interval = 1000 / fps"
MS_PER_SECOND == 1000
\* "jump = int(5 * fps)"
JUMP_SECONDS == 5

\* The digit keys K_0, K_1, K_2 as key_state = event.key - pygame.K_0.
Digits == {0, 1, 2}
\* The digit keys pressed in the sessions followed (event.key of a digit event).
TypedDigits == {0, 2}
\* pygame.K_SPACE (the key code of the space bar) in pygame.key.get_pressed().
K_SPACE == 32
\* Frame rates meta.get('fps', 30) as a fraction <<numerator, denominator>>.
FpsSet == {<<10, 1>>, <<1, 5>>, <<1, 10>>}
\* Milliseconds that may pass during one clock.tick(...).
TickSteps == {100, 300}

\* DEFAULT_STATES
DEFAULT_STATES == [s \in {-1, 0, 1, 2} |->
                     CASE s = -1 -> "unlabeled"
                       [] s = 0 -> "not flying"
                       [] s = 1 -> "transition"
                       [] s = 2 -> "flying"]

VARIABLES
  nframes,                  \* meta nframes
  fps,                      \* meta fps, <<num, den>>
  nreadable,                \* frames reader.get_data can actually supply
  labels,                   \* dict frame index -> state
  current_frame,
  auto_play,
  held_state,
  held_state_start,
  held_state_last_advance,
  running,
  keys,                     \* pygame.key.get_pressed(): the keys down, of K_SPACE
  now,                      \* pygame.time.get_ticks()
  pc,                       \* "loop", "gapfill", "csv", "render", "done", "failed",
                            \* "crashed" (uncaught exception inside the loop)
  csv,                      \* data rows written to <stem>_labels.csv
  displayed,                \* frame index on screen after pygame.display.flip()
  user_label,               \* per frame, the last state a user action assigned
  comb,                     \* combine.py main(directory): its locals
  bars,                     \* draw_progress_bars: its arguments and overview_bar
  hold_from,                \* frame at which the running hold began, while no
                            \* other control has been used during it; else None
  last                      \* the last step taken (event handled or branch run)

vars == <<nframes, fps, nreadable, labels, current_frame, auto_play, held_state,
          held_state_start, held_state_last_advance, running, keys, now, pc,
          csv, displayed, user_label, hold_from, last, comb, bars>>

\* ----------------------------------------------------------------- helpers
Min(a, b) == IF a < b THEN a ELSE b
Max(a, b) == IF a > b THEN a ELSE b

\* labels.get(k, default)
Get(d, k, default) == IF k \in DOMAIN d THEN d[k] ELSE default

\* mutant of Put: the assignment is lost
Put_lost(d, k, v) == d

\* labels[k] = v
Put(d, k, v) == [x \in (DOMAIN d) \cup {k} |-> IF x = k THEN v ELSE d[x]]

\* labels = {}
EmptyDict == [x \in {} |-> 0]

\* int(5 * fps)
Jump == (JUMP_SECONDS * fps[1]) \div fps[2]

\* current_ticks - held_state_last_advance >= 1000 / fps
IntervalElapsed(current_ticks) ==
  (current_ticks - held_state_last_advance) * fps[1] >= MS_PER_SECOND * fps[2]

\* mutant of DelayElapsed: the delay is taken as 100 ms
DelayElapsed_early(current_ticks) == current_ticks - held_state_start >= 100

\* current_ticks - held_state_start >= 300
DelayElapsed(current_ticks) == current_ticks - held_state_start >= HOLD_DELAY

\* bookkeeping of the step taken
Step(name) == last' = name
Meta == <<nframes, fps, nreadable>>
\* State of the combiner script and of a call of draw_progress_bars on its own,
\* which a labeling session never touches.
Outside == <<comb, bars>>

\* A program that has not been started.
NotStarted == [pc |-> "off"]

\* -------------------------------------------------------------------- Init
Init ==
  /\ nframes \in 1..MaxFrames
  /\ fps \in FpsSet
  /\ nreadable \in {n \in {nframes - 1, nframes} : n >= 1}
  /\ labels = EmptyDict
  /\ current_frame = 0
  /\ auto_play = FALSE
  /\ held_state = None
  /\ held_state_start = None
  /\ held_state_last_advance = None
  /\ running = TRUE
  /\ keys = {}
  /\ now = 0
  /\ pc = "loop"
  /\ csv = <<>>
  /\ displayed = None
  /\ user_label = [f \in 0..(nframes - 1) |-> UNLABELED]
  /\ hold_from = None
  /\ last = "init"
  /\ comb = NotStarted
  /\ bars = NotStarted

\* ---------------------------------------------------------- event handlers
\* Every handler is one pass of the body of "for event in pygame.event.get()".
HoldVars == <<held_state, held_state_start, held_state_last_advance>>

\* event.type == pygame.QUIT
QuitEvent ==
  /\ pc = "loop"
  /\ running' = FALSE
  /\ Step("quit")
  /\ hold_from' = None
  /\ UNCHANGED <<Meta, Outside, displayed, labels, current_frame, auto_play, HoldVars, keys, now, pc,
                 csv, user_label>>

\* KEYDOWN of K_ESCAPE or K_q
KeyDownQuit ==
  /\ pc = "loop"
  /\ running' = FALSE
  /\ Step("quitkey")
  /\ hold_from' = None
  /\ UNCHANGED <<Meta, Outside, displayed, labels, current_frame, auto_play, HoldVars, keys, now, pc,
                 csv, user_label>>

\* min(nframes - 1, current_frame + 1)
StepRight(cf) == Min(nframes - 1, cf + 1)
\* max(0, current_frame - 1)
StepLeft(cf) == Max(0, cf - 1)
\* max(0, current_frame - jump)
JumpBack(cf) == Max(0, cf - Jump)
\* min(nframes - 1, current_frame + jump)
JumpForward(cf) == Min(nframes - 1, cf + Jump)

MoveTo(name, target) ==
  /\ pc = "loop"
  /\ current_frame' = target
  /\ Step(name)
  /\ hold_from' = None
  /\ UNCHANGED <<Meta, Outside, displayed, labels, auto_play, HoldVars, running, keys, now, pc, csv,
                 user_label>>

\* KEYDOWN of K_RIGHT
KeyDownRight == MoveTo("right", StepRight(current_frame))
\* KEYDOWN of K_LEFT
KeyDownLeft == MoveTo("left", StepLeft(current_frame))
\* KEYDOWN of K_COMMA or K_LESS
KeyDownComma == MoveTo("comma", JumpBack(current_frame))
\* KEYDOWN of K_PERIOD or K_GREATER
KeyDownPeriod == MoveTo("period", JumpForward(current_frame))

\* KEYDOWN of K_SPACE
KeyDownSpace ==
  /\ pc = "loop"
  /\ K_SPACE \notin keys
  /\ keys' = keys \cup {K_SPACE}
  /\ auto_play' = TRUE
  /\ Step("space")
  /\ hold_from' = None
  /\ UNCHANGED <<Meta, Outside, displayed, labels, current_frame, HoldVars, running, now, pc, csv,
                 user_label>>

\* KEYUP of K_SPACE: no branch of the event loop handles it; only the key table
\* read by pygame.key.get_pressed() changes.
KeyUpSpace ==
  /\ pc = "loop"
  /\ K_SPACE \in keys
  /\ keys' = keys \ {K_SPACE}
  /\ Step("spaceup")
  /\ UNCHANGED <<Meta, Outside, displayed, hold_from, labels, current_frame, auto_play, HoldVars, running, now,
                 pc, csv, user_label>>

\* "if held_state is None": the guard under which a digit key-down starts a hold
StartsHold(d) == held_state = None

\* KEYDOWN of K_0, K_1 or K_2 (key_state = d). Key repeat is off, so the key
\* of the running hold, which is down, sends no second KEYDOWN.
KeyDownDigit(d) ==
  /\ pc = "loop"
  /\ d # held_state
  /\ IF StartsHold(d)
       THEN /\ held_state' = d
            /\ held_state_start' = now
            /\ held_state_last_advance' = None
            /\ labels' = Put(labels, current_frame, d)
            /\ user_label' = [user_label EXCEPT ![current_frame] = d]
            /\ hold_from' = IF running /\ K_SPACE \notin keys
                               THEN current_frame ELSE None
            /\ Step("digit")
       ELSE /\ UNCHANGED <<HoldVars, labels, user_label, hold_from>>
            /\ Step("digit_ignored")
  /\ UNCHANGED <<Meta, Outside, displayed, current_frame, auto_play, running, keys, now, pc,
                 csv>>

\* KEYUP of K_0, K_1 or K_2 (released_state = d)
KeyUpDigit(d) ==
  /\ pc = "loop"
  /\ IF held_state # None /\ held_state = d
       THEN /\ held_state' = None
            /\ held_state_start' = None
            /\ held_state_last_advance' = None
            /\ hold_from' = None
       ELSE UNCHANGED <<HoldVars, hold_from>>
  /\ Step("digitup")
  /\ UNCHANGED <<Meta, Outside, displayed, labels, current_frame, auto_play, running, keys, now, pc, csv,
                 user_label>>

\* ------------------------------------------------- the rest of an iteration
\* "keys = pygame.key.get_pressed(); if not keys[pygame.K_SPACE]: auto_play = False"
AutoPlayNow == IF K_SPACE \notin keys THEN FALSE ELSE auto_play

\* The guards of the two labelling branches of "if held_state is not None":
\* the first advance after the hold delay, later ones every 1000 / fps ms.
HoldFires(current_ticks) ==
  /\ held_state # None
  /\ IF held_state_last_advance = None
       THEN DelayElapsed(current_ticks)
       ELSE IntervalElapsed(current_ticks)

\* "if auto_play:", reached only when no hold branch ran "continue"
AutoPlayFires == ~HoldFires(now) /\ AutoPlayNow

\* mutant of Advance: "current_frame += 2"
Advance_two(cf) == cf + 2

\* "current_frame += 1"
Advance(cf) == cf + 1

\* mutant of RunningAfter: "if current_frame > nframes"
RunningAfter_late(cf) == IF cf > nframes THEN FALSE ELSE running

\* "if current_frame >= nframes: running = False"
RunningAfter(cf) == IF cf >= nframes THEN FALSE ELSE running

\* clock.tick(fps) / clock.tick(30): time passes
ClockTick == \E d \in TickSteps : now + d <= MaxTicks /\ now' = now + d

\* "while running:" is evaluated again; pygame.quit() follows the loop
LoopOrExit(r) == pc' = IF r THEN "loop" ELSE "gapfill"

\* mutant of TickHoldAdvance: the playhead advances first and the frame it
\* advanced into is labeled
TickHoldAdvance_advancefirst ==
  /\ pc = "loop"
  /\ HoldFires(now)
  /\ auto_play' = AutoPlayNow
  /\ held_state_last_advance' = now
  /\ current_frame' = Advance(current_frame)
  /\ labels' = Put(labels, current_frame', held_state)
  /\ user_label' = user_label
  /\ running' = RunningAfter(current_frame')
  /\ ClockTick
  /\ LoopOrExit(running')
  /\ Step("hold")
  /\ UNCHANGED <<Meta, Outside, displayed, hold_from, held_state, held_state_start, keys, csv>>

\* mutant of TickHoldAdvance: the branch lacks its "continue", so the auto-play
\* branch advances once more in the same iteration
TickHoldAdvance_nocontinue ==
  /\ pc = "loop"
  /\ HoldFires(now)
  /\ auto_play' = AutoPlayNow
  /\ held_state_last_advance' = now
  /\ labels' = Put(labels, current_frame, held_state)
  /\ user_label' = [user_label EXCEPT ![current_frame] = held_state]
  /\ current_frame' = IF AutoPlayNow THEN Advance(Advance(current_frame))
                                      ELSE Advance(current_frame)
  /\ running' = RunningAfter(current_frame')
  /\ ClockTick
  /\ LoopOrExit(running')
  /\ Step("hold")
  /\ UNCHANGED <<Meta, Outside, displayed, hold_from, held_state, held_state_start, keys, csv>>

\* held number key auto-advance (either branch), then "continue"
TickHoldAdvance ==
  /\ pc = "loop"
  /\ HoldFires(now)
  /\ auto_play' = AutoPlayNow
  /\ held_state_last_advance' = now
  /\ labels' = Put(labels, current_frame, held_state)
  /\ user_label' = [user_label EXCEPT ![current_frame] = held_state]
  /\ current_frame' = Advance(current_frame)
  /\ running' = RunningAfter(current_frame')
  /\ ClockTick
  /\ LoopOrExit(running')
  /\ Step("hold")
  /\ UNCHANGED <<Meta, Outside, displayed, hold_from, held_state, held_state_start, keys, csv>>

\* mutant of TickAutoPlay: the auto-play branch also labels the frame it leaves
TickAutoPlay_labels ==
  /\ pc = "loop"
  /\ AutoPlayFires
  /\ auto_play' = AutoPlayNow
  /\ labels' = Put(labels, current_frame, 0)
  /\ current_frame' = Advance(current_frame)
  /\ running' = RunningAfter(current_frame')
  /\ ClockTick
  /\ LoopOrExit(running')
  /\ Step("autoplay")
  /\ UNCHANGED <<Meta, Outside, displayed, hold_from, HoldVars, keys, csv, user_label>>

\* space bar auto-play, then "continue"
TickAutoPlay ==
  /\ pc = "loop"
  /\ AutoPlayFires
  /\ auto_play' = AutoPlayNow
  /\ current_frame' = Advance(current_frame)
  /\ running' = RunningAfter(current_frame')
  /\ ClockTick
  /\ LoopOrExit(running')
  /\ Step("autoplay")
  /\ UNCHANGED <<Meta, Outside, displayed, hold_from, labels, HoldVars, keys, csv, user_label>>

\* reader.get_data(current_frame) raises IndexError
DecodeFails(cf) == cf >= nreadable

\* draw_progress_bars: start_frame = max(0, current_frame - int(5 * fps))
DetailStart(cf) == Max(0, cf - Jump)
\* draw_progress_bars: end_frame = min(nframes, current_frame + int(5 * fps))
DetailEnd(cf) == Min(nframes, cf + Jump)
\* "(current_frame - start_frame) / (end_frame - start_frame)" raises
\* ZeroDivisionError
DetailDivides(cf) == DetailEnd(cf) - DetailStart(cf) = 0

\* the frame, the info text and the progress bars are drawn and flipped to the
\* screen; clock.tick(30)
TickDisplay ==
  /\ pc = "loop"
  /\ ~HoldFires(now) /\ ~AutoPlayNow
  /\ ~DecodeFails(current_frame)
  /\ ~DetailDivides(current_frame)
  /\ auto_play' = AutoPlayNow
  /\ displayed' = current_frame
  /\ ClockTick
  /\ LoopOrExit(running)
  /\ Step("display")
  /\ UNCHANGED <<Meta, Outside, hold_from, labels, current_frame, HoldVars, running, keys,
                 csv, user_label>>

\* "except IndexError: running = False; break"
TickDecodeError ==
  /\ pc = "loop"
  /\ ~HoldFires(now) /\ ~AutoPlayNow
  /\ DecodeFails(current_frame)
  /\ auto_play' = AutoPlayNow
  /\ running' = FALSE
  /\ pc' = "gapfill"
  /\ Step("decode_error")
  /\ UNCHANGED <<Meta, Outside, displayed, hold_from, labels, current_frame, HoldVars, keys, now, csv,
                 user_label>>

\* draw_progress_bars raises ZeroDivisionError, which nothing catches: main()
\* ends with the traceback, before pygame.display.flip() and before the export
TickDisplayCrash ==
  /\ pc = "loop"
  /\ ~HoldFires(now) /\ ~AutoPlayNow
  /\ ~DecodeFails(current_frame)
  /\ DetailDivides(current_frame)
  /\ auto_play' = AutoPlayNow
  /\ pc' = "crashed"
  /\ Step("display_crash")
  /\ UNCHANGED <<Meta, Outside, displayed, hold_from, labels, current_frame, HoldVars, running, keys,
                 now, csv, user_label>>

\* ------------------------------------------------------------ export stage
\* mutant of GapFilled: every frame is reset to -1
GapFilled_overwrite(d, n) == [i \in 0..(n - 1) |-> UNLABELED]

\* "for i in range(int(nframes)): if i not in labels: labels[i] = -1"
GapFilled(d, n) ==
  [i \in (DOMAIN d) \cup (0..(n - 1)) |-> IF i \in DOMAIN d THEN d[i] ELSE UNLABELED]

\* DEFAULT_STATES.get(state, "unlabeled")
StateLabel(state) ==
  IF state \in DOMAIN DEFAULT_STATES THEN DEFAULT_STATES[state] ELSE "unlabeled"

\* mutant of CsvRows: the rows are written from the keys of labels that hold a
\* user label only
CsvRows_sparse(d, n) ==
  [r \in 1..Cardinality({k \in DOMAIN d : d[k] # UNLABELED}) |->
     <<r - 1, Get(d, r - 1, UNLABELED), StateLabel(Get(d, r - 1, UNLABELED))>>]

\* "for i in range(nframes): writer.writerow([i, state, DEFAULT_STATES.get(...)])"
CsvRows(d, n) ==
  [r \in 1..n |-> <<r - 1, Get(d, r - 1, UNLABELED),
                    StateLabel(Get(d, r - 1, UNLABELED))>>]

GapFill ==
  /\ pc = "gapfill"
  /\ labels' = GapFilled(labels, nframes)
  /\ pc' = "csv"
  /\ Step("gapfill")
  /\ UNCHANGED <<Meta, Outside, displayed, hold_from, current_frame, auto_play, HoldVars, running, keys, now,
                 csv, user_label>>

WriteCsv ==
  /\ pc = "csv"
  /\ csv' = CsvRows(labels, nframes)
  /\ pc' = "render"
  /\ Step("csv")
  /\ UNCHANGED <<Meta, Outside, displayed, hold_from, labels, current_frame, auto_play, HoldVars, running, keys,
                 now, user_label>>

\* mutant of AfterRender: the render truncates what was exported
AfterRender_truncated(x) == <<>>

\* What generate_review_video_ffmpeg leaves of the CSV rows and the labels.
AfterRender(x) == x

\* subprocess.run(cmd, check=True) returns
RenderOk ==
  /\ pc = "render"
  /\ pc' = "done"
  /\ csv' = AfterRender(csv)
  /\ labels' = AfterRender(labels)
  /\ Step("render")
  /\ UNCHANGED <<Meta, Outside, displayed, hold_from, current_frame, auto_play, HoldVars, running, keys, now,
                 user_label>>

\* subprocess.run(cmd, check=True) raises CalledProcessError: main() ends with
\* the traceback
RenderFails ==
  /\ pc = "render"
  /\ pc' = "failed"
  /\ csv' = AfterRender(csv)
  /\ labels' = AfterRender(labels)
  /\ Step("render_failed")
  /\ UNCHANGED <<Meta, Outside, displayed, hold_from, current_frame, auto_play, HoldVars, running, keys, now,
                 user_label>>

\* ------------------------------------------------------------- combine.py
\* Paths and column names are sequences of tokens: "/d/a_labels.csv" is
\* <<"/", "d", "/", "a", "_labels", ".csv">>.

\* "combined = combined.head(7750)"
HEAD_ROWS == 7750
\* pd.NA, the cell of a frame a file does not have
NA == -99

\* os.path.join(a, b)
PathJoin(a, b) == IF Len(b) > 0 /\ b[1] = "/" THEN b ELSE a \o <<"/">> \o b

\* os.path.splitext(path)[0]
SplitextStem(path) ==
  IF Len(path) > 0 /\ path[Len(path)] = ".csv" THEN SubSeq(path, 1, Len(path) - 1)
                                                ELSE path

\* base_name.replace('_labels', '')
ReplaceLabels(name) == SelectSeq(name, LAMBDA t : t # "_labels")

\* file.lower().endswith('.csv')
EndsWithCsv(file) == Len(file) > 0 /\ file[Len(file)] = ".csv"

\* The directory os.walk reports for a file: the directory itself or its
\* sub-directory "sub".
WalkRoot(directory, f) == IF f.sub THEN PathJoin(directory, <<"sub">>) ELSE directory

\* "for root, dirs, files in os.walk(directory)": top-down, the paths
\* os.path.join(root, file) of the files ending in .csv
WalkCsvFiles(directory, listing) ==
  LET top == SelectSeq(listing, LAMBDA f : ~f.sub /\ EndsWithCsv(f.name))
      low == SelectSeq(listing, LAMBDA f : f.sub /\ EndsWithCsv(f.name))
      all == top \o low
  IN  [i \in 1..Len(all) |->
         [path |-> PathJoin(WalkRoot(directory, all[i]), all[i].name),
          kind |-> all[i].kind, rows |-> all[i].rows]]

\* The paths that name a file, for open(): those os.walk found
ExistingPaths(csv_files) == {csv_files[i].path : i \in 1..Len(csv_files)}

\* f"{base_name}_state" with base_name = os.path.splitext(file)[0] less '_labels'
ColumnName(file) == ReplaceLabels(SplitextStem(file)) \o <<"_state">>

\* the smallest element first
RECURSIVE Ascending(_)
Ascending(S) ==
  IF S = {} THEN <<>>
  ELSE LET m == CHOOSE x \in S : \A y \in S : x <= y
       IN  <<m>> \o Ascending(S \ {m})

\* the union of the indexes in order of first appearance
RECURSIVE FirstAppearance(_, _)
FirstAppearance(dfs, seen) ==
  IF dfs = <<>> THEN <<>>
  ELSE Ascending((DOMAIN dfs[1].data) \ seen)
         \o FirstAppearance(Tail(dfs), seen \cup DOMAIN dfs[1].data)

\* The index of pd.concat(dataframes, axis=1, join='outer'): the union of the
\* frame indexes, sorted or in order of first appearance (the pandas version
\* decides which)
OuterIndex(dfs, sorted) ==
  IF sorted THEN Ascending(UNION {DOMAIN dfs[i].data : i \in 1..Len(dfs)})
            ELSE FirstAppearance(dfs, {})

\* pd.concat(...), .where(pd.notna(combined), pd.NA) and .head(7750)
Combined(dfs, sorted) ==
  LET index == OuterIndex(dfs, sorted)
      kept == SubSeq(index, 1, Min(Len(index), HEAD_ROWS))
  IN  [index |-> kept,
       columns |-> [c \in 1..Len(dfs) |-> dfs[c].column],
       cells |-> [c \in 1..Len(dfs) |->
                    [r \in 1..Len(kept) |->
                       IF kept[r] \in DOMAIN dfs[c].data THEN dfs[c].data[kept[r]]
                                                         ELSE NA]]]

\* Directories given on the command line: "/d" and "d".
Directories == {<<"/", "d">>, <<"d">>}

\* Contents of a label file: the states of the frames lo..hi.
LabelRows ==
  {[f \in lo..hi |-> ((f + k) % 4) - 1] : lo \in 0..1, hi \in 1..MaxRow, k \in {0, 2}}

\* Files in the directory: label files, CSVs without a state column (such as an
\* earlier combined.csv) and CSVs without a frame column (such as summary.csv).
FilesNamed(stem) ==
  {[sub |-> sb, name |-> stem \o <<".csv">>, kind |-> "labels", rows |-> r] :
      sb \in BOOLEAN, r \in LabelRows}
    \cup {[sub |-> FALSE, name |-> stem \o <<".csv">>, kind |-> kd,
           rows |-> [f \in {} |-> 0]] : kd \in {"no_state", "no_frame"}}

Listings ==
  {<<>>}
    \cup {<<a>> : a \in FilesNamed(<<"a", "_labels">>)}
    \cup {<<a, b>> : a \in FilesNamed(<<"a", "_labels">>),
                     b \in FilesNamed(<<"b", "_labels">>)}

\* combine.py main(directory) up to the first statement of its body
CombineInit ==
  /\ nframes = 1 /\ fps = <<10, 1>> /\ nreadable = 1
  /\ labels = EmptyDict /\ current_frame = 0 /\ auto_play = FALSE
  /\ held_state = None /\ held_state_start = None /\ held_state_last_advance = None
  /\ running = FALSE /\ keys = {} /\ now = 0 /\ pc = "off" /\ csv = <<>>
  /\ displayed = None /\ user_label = [f \in {0} |-> UNLABELED]
  /\ hold_from = None /\ last = "init"
  /\ bars = NotStarted
  /\ \E dir \in Directories, ls \in Listings :
       comb = [pc |-> "walk", directory |-> dir, listing |-> ls, csv_files |-> <<>>,
               i |-> 1, dataframes |-> <<>>, combined |-> <<>>]

Session == <<nframes, fps, nreadable, labels, current_frame, auto_play, held_state,
             held_state_start, held_state_last_advance, running, keys, now, pc,
             csv, displayed, user_label, hold_from, last>>

\* os.walk and "if not csv_files: ... return"
CombineWalk ==
  /\ comb.pc = "walk"
  /\ LET found == WalkCsvFiles(comb.directory, comb.listing)
     IN  comb' = [comb EXCEPT !.csv_files = found,
                              !.pc = IF found = <<>> THEN "no_csv" ELSE "read"]
  /\ UNCHANGED <<Session, bars>>

\* one pass of "for file in csv_files": read_csv raises (no such file, or no
\* 'frame' column), or the 'state' column is missing, or the column is kept
CombineRead ==
  /\ comb.pc = "read"
  /\ comb.i <= Len(comb.csv_files)
  /\ LET file == comb.csv_files[comb.i]
         file_path == PathJoin(comb.directory, file.path)
         raises == file_path \notin ExistingPaths(comb.csv_files)
                     \/ file.kind = "no_frame"
         skipped == raises \/ file.kind = "no_state"
         df == [column |-> ColumnName(file.path), data |-> file.rows]
     IN  comb' = [comb EXCEPT
                    !.i = @ + 1,
                    !.dataframes = IF skipped THEN @ ELSE Append(@, df)]
  /\ UNCHANGED <<Session, bars>>

\* "if not dataframes: ... return"
CombineNoValid ==
  /\ comb.pc = "read"
  /\ comb.i > Len(comb.csv_files)
  /\ comb.dataframes = <<>>
  /\ comb' = [comb EXCEPT !.pc = "no_valid"]
  /\ UNCHANGED <<Session, bars>>

\* the outer join, head(7750) and combined.to_csv
CombineConcat ==
  /\ comb.pc = "read"
  /\ comb.i > Len(comb.csv_files)
  /\ comb.dataframes # <<>>
  /\ \E sorted \in BOOLEAN :
       comb' = [comb EXCEPT !.combined = Combined(comb.dataframes, sorted),
                            !.pc = "saved"]
  /\ UNCHANGED <<Session, bars>>

CombineNext == CombineWalk \/ CombineRead \/ CombineNoValid \/ CombineConcat

CombineSpec == CombineInit /\ [][CombineNext]_vars

\* ------------------------------------------- draw_progress_bars (overview)
\* STATE_COLORS and the fallback of STATE_COLORS.get(state, (128, 128, 128))
GRAY == <<128, 128, 128>>
STATE_COLORS == [s \in {-1, 0, 1, 2} |->
                  CASE s = -1 -> GRAY
                    [] s = 0 -> <<255, 0, 0>>
                    [] s = 1 -> <<255, 255, 0>>
                    [] s = 2 -> <<0, 255, 0>>]

StateColor(state) == IF state \in DOMAIN STATE_COLORS THEN STATE_COLORS[state] ELSE GRAY

\* <<vid_width, nframes>> of the videos drawn
StripSizes == {<<1, 1>>, <<3, 4>>, <<4, 3>>, <<22, 22>>, <<200, 200>>}

\* x / vid_width * nframes is computed in IEEE doubles: the quotient is rounded,
\* then the product. For these <<x, vid_width, nframes>> of StripSizes the
\* double is just below the integer x * nframes / vid_width; for every other
\* column of StripSizes int() of the double is the exact floor.
RoundsBelow ==
  {<<15, 22, 22>>,
   <<29, 200, 200>>, <<57, 200, 200>>, <<58, 200, 200>>, <<113, 200, 200>>,
   <<114, 200, 200>>, <<115, 200, 200>>, <<116, 200, 200>>}

\* frame_index = int(x / vid_width * nframes)
FrameIndex(x, vid_width, n) ==
  IF <<x, vid_width, n>> \in RoundsBelow THEN (x * n) \div vid_width - 1
                                         ELSE (x * n) \div vid_width

\* States a label map may hold: the enumeration and one outside it.
StripStates == {-1, 0, 1, 2, 3}

\* Label maps drawn: empty, or one frame labelled.
StripLabels(n) ==
  {EmptyDict} \cup {[k \in {f} |-> st] : f \in 0..(n - 1), st \in StripStates}

\* the call draw_progress_bars(screen, labels, current_frame, nframes, vid_width, ...)
StripInit ==
  /\ nframes = 1 /\ fps = <<10, 1>> /\ nreadable = 1
  /\ labels = EmptyDict /\ current_frame = 0 /\ auto_play = FALSE
  /\ held_state = None /\ held_state_start = None /\ held_state_last_advance = None
  /\ running = FALSE /\ keys = {} /\ now = 0 /\ pc = "off" /\ csv = <<>>
  /\ displayed = None /\ user_label = [f \in {0} |-> UNLABELED]
  /\ hold_from = None /\ last = "init"
  /\ comb = NotStarted
  /\ \E sz \in StripSizes : \E lb \in StripLabels(sz[2]) :
       bars = [pc |-> "called", vid_width |-> sz[1], nframes |-> sz[2],
               labels |-> lb, overview_bar |-> <<>>]

\* "for x in range(vid_width): ... overview_bar[:, x, :] = color"
DrawOverview ==
  /\ bars.pc = "called"
  /\ bars' = [bars EXCEPT
       !.pc = "drawn",
       !.overview_bar =
          [x \in 0..(bars.vid_width - 1) |->
             StateColor(Get(bars.labels,
                            FrameIndex(x, bars.vid_width, bars.nframes),
                            UNLABELED))]]
  /\ UNCHANGED <<Session, comb>>

StripSpec == StripInit /\ [][DrawOverview]_vars

\* -------------------------------------------------------------------- Next
Next ==
  \/ QuitEvent
  \/ KeyDownQuit
  \/ KeyDownRight
  \/ KeyDownLeft
  \/ KeyDownComma
  \/ KeyDownPeriod
  \/ KeyDownSpace
  \/ KeyUpSpace
  \/ \E d \in TypedDigits : KeyDownDigit(d)
  \/ \E d \in TypedDigits : KeyUpDigit(d)
  \/ TickHoldAdvance
  \/ TickAutoPlay
  \/ TickDisplay
  \/ TickDecodeError
  \/ TickDisplayCrash
  \/ GapFill
  \/ WriteCsv
  \/ RenderOk
  \/ RenderFails

Spec == Init /\ [][Next]_vars

\* One iteration of "while running:" after its events, whichever branch it takes.
Tick ==
  TickHoldAdvance \/ TickAutoPlay \/ TickDisplay \/ TickDecodeError \/ TickDisplayCrash

\* The straight-line code after the loop.
Export == GapFill \/ WriteCsv \/ RenderOk \/ RenderFails

\* The loop keeps iterating and the code after it keeps running: an iteration
\* or an export step that stays possible is eventually taken.
LiveSpec == Init /\ [][Next]_vars /\ WF_vars(Tick) /\ WF_vars(Export)

TypeOK ==
  /\ nframes \in 1..MaxFrames
  /\ current_frame \in 0..nframes
  /\ held_state \in Digits \cup {None}
  /\ DOMAIN labels \subseteq 0..(nframes - 1)
  /\ \A k \in DOMAIN labels : labels[k] \in {-1, 0, 1, 2}
  /\ pc \in {"loop", "gapfill", "csv", "render", "done", "failed", "crashed", "off"}

\* ------------------------------------------------------------------ claims
MoveOps == {"right", "left", "comma", "period"}
AdvanceOps == {"hold", "autoplay"}
Exported == pc \in {"render", "done", "failed"}
Frames == 0..(nframes - 1)

\* C1: after a session the CSV has exactly nframes rows, frame = 0..nframes-1 in
\* ascending order, and each row's state is the last state the user assigned to
\* that frame, or -1 if the user never labeled it.
C1_CsvIsLastUserLabels ==
  Exported =>
    /\ Len(csv) = nframes
    /\ \A r \in 1..Len(csv) : csv[r][1] = r - 1 /\ csv[r][2] = user_label[r - 1]

C1_Witness ==
  /\ pc = "done"
  /\ nframes = 2
  /\ csv[1][2] \in Digits
  /\ csv[2][2] = UNLABELED

\* C2: the playhead is in [0, nframes-1] in every reachable state, also after
\* the mutation that ends the session.
C2_PlayheadClamped == current_frame \in Frames

\* C3: once a quit event has been handled, neither the label map nor the
\* playhead changes again before the loop exits.
C3_QuitStopsMutation ==
  [][(pc = "loop" /\ ~running) =>
       (labels' = labels /\ current_frame' = current_frame)]_vars

\* C4 (as claimed): key-down of a digit d with no digit held labels the frame
\* under the playhead with d, then advances the playhead by one frame (clamped),
\* and records the hold start as the current time.
C4_KeyDownLabelsAndAdvances ==
  [][(held_state = None /\ last' = "digit") =>
       /\ Get(labels', current_frame, UNLABELED) = held_state'
       /\ held_state_start' = now
       /\ current_frame' = Min(nframes - 1, current_frame + 1)]_vars

\* C4 (amended): key-down of a digit d with no digit held labels the frame under
\* the playhead with d and records the hold start as the current time; the
\* key-down itself leaves the playhead where it is.
C4_KeyDownLabelsInPlace ==
  [][(held_state = None /\ last' = "digit") =>
       /\ held_state' \in Digits
       /\ Get(labels', current_frame, UNLABELED) = held_state'
       /\ \A k \in (DOMAIN labels) \ {current_frame} :
            Get(labels', k, UNLABELED) = labels[k]
       /\ held_state_start' = now
       /\ held_state_last_advance' = None
       /\ current_frame' = current_frame]_vars

C4_Witness ==
  /\ last = "digit"
  /\ nframes = 2
  /\ current_frame = 0
  /\ held_state = 2
  /\ held_state_start = now
  /\ now > 0
  /\ Get(labels, 0, UNLABELED) = 2

\* C5: a key-down of a digit e while another digit d is held replaces the hold
\* of d by a hold of e and labels the frame under the playhead with e.
C5_NewDigitReplacesHold ==
  [][(held_state # None /\ last' \in {"digit", "digit_ignored"}) =>
       /\ held_state' \in Digits \ {held_state}
       /\ Get(labels', current_frame, UNLABELED) = held_state']_vars

\* C6: in a tick in which a digit hold exists and space is held, the playhead
\* passes no frame without labeling it with the held digit.
C6_HoldBeatsAutoPlay ==
  [][(pc = "loop" /\ held_state # None /\ K_SPACE \in keys
        /\ last' \in AdvanceOps \cup {"display", "decode_error"}
        /\ current_frame' # current_frame) =>
       Get(labels', current_frame, UNLABELED) = held_state]_vars

\* C7: the step controls (next, previous, jump back, jump forward) and an
\* auto-play advance leave the label map, and the hold, unchanged.
C7_MovesDoNotLabel ==
  [][(last' \in MoveOps \cup {"autoplay"}) =>
       (labels' = labels /\ UNCHANGED HoldVars)]_vars

C7_Witness ==
  /\ last = "autoplay"
  /\ current_frame = 1
  /\ pc = "loop"
  /\ DOMAIN labels = {0}

\* C8: an auto-play or hold-driven advance moves the playhead forward by one
\* frame, never wraps, and when it steps past frame nframes-1 the loop ends in
\* that same tick; the loop is never running with the playhead outside the video.
C8_AdvancePastEndTerminates ==
  [][(last' \in AdvanceOps) =>
       /\ current_frame' = current_frame + 1
       /\ (current_frame' > nframes - 1 => (~running' /\ pc' = "gapfill"))
       /\ (pc' = "loop" => current_frame' \in Frames)]_vars

C8_Witness ==
  /\ last = "hold"
  /\ current_frame = nframes
  /\ pc = "gapfill"
  /\ ~running

\* C9: after the loop, gap-fill, the CSV write and the render happen once each
\* in this order; the CSV is complete before the render, the label map does not
\* change after gap-fill, and a failing render leaves the CSV unchanged.
C9_ExportOrder ==
  [][/\ (pc' = "gapfill" /\ pc # "gapfill" => pc = "loop" /\ csv = <<>>)
     /\ (pc = "gapfill" => pc' = "csv" /\ last' = "gapfill" /\ csv' = <<>>)
     /\ (pc = "csv" => /\ pc' = "render" /\ last' = "csv"
                       /\ Len(csv') = nframes
                       /\ labels' = labels)
     /\ (pc = "render" => /\ pc' \in {"done", "failed"}
                          /\ csv' = csv /\ Len(csv') = nframes
                          /\ labels' = labels)
     /\ (pc \in {"done", "failed"} => FALSE)]_vars

C9_Witness ==
  /\ pc = "failed"
  /\ last = "render_failed"
  /\ nframes = 2
  /\ Len(csv) = 2
  /\ csv[2][2] \in Digits

\* C10: gap-fill sets every frame of [0, nframes) absent from the label map to
\* -1, keeps every label already present, makes the map total over [0, nframes),
\* and applying it again changes nothing.
C10_GapFill ==
  [][(pc = "gapfill") =>
       /\ DOMAIN labels' = Frames
       /\ \A k \in DOMAIN labels : labels'[k] = labels[k]
       /\ \A k \in Frames \ DOMAIN labels : labels'[k] = UNLABELED
       /\ GapFilled(labels', nframes) = labels']_vars

C10_Witness ==
  /\ last = "gapfill"
  /\ \E k \in Frames : labels[k] = UNLABELED
  /\ \E k \in Frames : labels[k] \in Digits

\* C11: a hold does not fire before the 300 ms hold delay has elapsed since the
\* key-down: the key-down labels exactly the frame under the playhead, and
\* until the delay has elapsed no step labels or is a hold-driven advance, so a
\* key-up handled before then ends the hold with that one frame labeled.
C11_TapLabelsOneFrame ==
  [][/\ (held_state = None /\ last' = "digit") =>
          labels' = [k \in (DOMAIN labels) \cup {current_frame} |->
                       IF k = current_frame THEN held_state' ELSE labels[k]]
     /\ (pc = "loop" /\ held_state # None /\ now - held_state_start < HOLD_DELAY) =>
          /\ last' # "hold"
          /\ labels' = labels
          /\ held_state_last_advance' = None]_vars

C11_Witness ==
  /\ last = "digitup"
  /\ held_state = None
  /\ now = 200
  /\ nframes = 2
  /\ current_frame = 0
  /\ DOMAIN labels = {0}
  /\ labels[0] = 2

\* C13: after every tick in which the loop is running the frame on screen is
\* the frame under the playhead, also after a tick in which auto-play or the
\* hold moved the playhead.
C13_DisplayedIsPlayhead ==
  (pc = "loop" /\ last \in {"hold", "autoplay", "display"}) =>
    displayed = current_frame

\* C14: for every reachable playhead, nframes and fps the renderer completes
\* without an arithmetic error: a detail window of zero width is drawn as a
\* no-op.
C14_ZeroWidthWindowIsNoOp ==
  [][(pc = "loop" /\ DetailEnd(current_frame) = DetailStart(current_frame)
        /\ last' \in {"display", "display_crash"}) =>
       (pc' \in {"loop", "gapfill"} /\ displayed' = current_frame)]_vars

\* C16 (as claimed): a hold-driven step first advances the playhead by one
\* frame and then labels the frame it advanced into with the held digit, so
\* after the step the frame under the playhead carries that digit.
C16_AdvanceThenLabel ==
  [][(last' = "hold") =>
       /\ current_frame' = current_frame + 1
       /\ Get(labels', current_frame', UNLABELED) = held_state]_vars

\* C16 (amended): a hold-driven step first labels the frame under the playhead
\* with the held digit and then advances the playhead by one frame, so after
\* the step the frame just left carries that digit and no other label changed.
C16_LabelThenAdvance ==
  [][(last' = "hold") =>
       /\ current_frame' = current_frame + 1
       /\ labels' = [k \in (DOMAIN labels) \cup {current_frame} |->
                       IF k = current_frame THEN held_state ELSE labels[k]]
       /\ held_state' = held_state]_vars

C16_Witness ==
  /\ last = "hold"
  /\ held_state = 2
  /\ held_state_last_advance > held_state_start + HOLD_DELAY
  /\ current_frame = 2
  /\ Get(labels, 1, UNLABELED) = 2

\* C17: before gap-fill the keys of the label map are frames of [0, nframes)
\* that the user labeled and every stored value is 0, 1 or 2; -1 enters the map
\* only through gap-fill.
C17_OnlyUserLabelsBeforeGapFill ==
  /\ (pc \in {"loop", "gapfill", "crashed"} =>
        /\ DOMAIN labels = {k \in Frames : user_label[k] # UNLABELED}
        /\ \A k \in DOMAIN labels : labels[k] \in Digits /\ labels[k] = user_label[k])
  /\ \A k \in DOMAIN labels : labels[k] = UNLABELED =>
        (pc \in {"csv", "render", "done", "failed"} /\ user_label[k] = UNLABELED)

C17_Witness ==
  /\ pc = "gapfill"
  /\ nframes = 2
  /\ DOMAIN labels = {1}
  /\ labels[1] = 2

\* C18: in one tick at most one automatic advance is applied: the playhead
\* moves by at most one frame, and auto-play advances only in a tick in which
\* the hold did not label and advance.
C18_OneAdvancePerTick ==
  [][(last' \in {"hold", "autoplay", "display", "decode_error", "display_crash"}) =>
       /\ current_frame' \in {current_frame, current_frame + 1}
       /\ (last' = "hold" => current_frame' = current_frame + 1)
       /\ (last' = "autoplay" =>
             (labels' = labels /\ held_state_last_advance' = held_state_last_advance))]_vars

C18_Witness ==
  /\ last = "hold"
  /\ K_SPACE \in keys
  /\ auto_play
  /\ pc = "loop"
  /\ current_frame = 1

\* C19: during an undisturbed hold of digit d begun at frame f (no space, step,
\* jump or quit during it) frame f and all frames of [f, playhead-1] are labeled
\* d, so a hold that lasts to the end of the video leaves [f, nframes-1] labeled d.
C19_HoldLeavesNoGap ==
  hold_from # None =>
    /\ held_state \in Digits
    /\ hold_from <= current_frame
    /\ Get(labels, hold_from, UNLABELED) = held_state
    /\ \A k \in hold_from..(current_frame - 1) : Get(labels, k, UNLABELED) = held_state
    /\ (pc # "loop" /\ current_frame = nframes =>
          \A k \in hold_from..(nframes - 1) : Get(labels, k, UNLABELED) = held_state)

C19_Witness ==
  /\ hold_from = 0
  /\ last = "hold"
  /\ nframes = 2
  /\ current_frame = 2
  /\ pc = "gapfill"

\* C20: if from some point on space or a digit is held and no backward step or
\* jump is pressed while time keeps advancing (within the MaxTicks followed),
\* the loop eventually terminates and the export stage runs to its end.
C20_HeldReachesExport ==
  <>[]((K_SPACE \in keys \/ held_state # None)
         /\ last \notin {"left", "comma"}
         /\ now < MaxTicks)
    => <>(pc \in {"done", "failed"})

\* C12: the combiner outer-joins the valid label files on the frame index: one
\* column per valid file named <file stem less "_labels">_state, one row per
\* frame present in at least one of them, each cell the file's state for the
\* frame or empty.
ValidFiles == SelectSeq(comb.listing, LAMBDA f : f.kind = "labels")
ValidInOrder ==
  SelectSeq(ValidFiles, LAMBDA f : ~f.sub) \o SelectSeq(ValidFiles, LAMBDA f : f.sub)
C12_OuterJoin ==
  (comb.pc \in {"saved", "no_csv", "no_valid"} /\ ValidFiles # <<>>) =>
    /\ comb.pc = "saved"
    /\ Len(comb.combined.columns) = Len(ValidInOrder)
    /\ \A c \in 1..Len(ValidInOrder) :
         /\ comb.combined.columns[c] =
              ReplaceLabels(SplitextStem(ValidInOrder[c].name)) \o <<"_state">>
         /\ \A r \in 1..Len(comb.combined.index) :
              comb.combined.cells[c][r] =
                Get(ValidInOrder[c].rows, comb.combined.index[r], NA)
    /\ {comb.combined.index[r] : r \in 1..Len(comb.combined.index)} =
         UNION {DOMAIN ValidInOrder[c].rows : c \in 1..Len(ValidInOrder)}
    /\ \A r1, r2 \in 1..Len(comb.combined.index) :
         r1 # r2 => comb.combined.index[r1] # comb.combined.index[r2]

\* C15: overview strip column x has the color of the state stored for frame
\* floor(x * nframes / W), gray if the frame is absent or its state is outside
\* the enumeration, and the sampled frame lies in 0..nframes-1.
C15_StripSamplesFloor ==
  bars.pc = "drawn" =>
    \A x \in 0..(bars.vid_width - 1) :
      /\ (x * bars.nframes) \div bars.vid_width \in 0..(bars.nframes - 1)
      /\ bars.overview_bar[x] =
           StateColor(Get(bars.labels, (x * bars.nframes) \div bars.vid_width,
                          UNLABELED))

====
